---- MODULE Spec2Model ----
(***************************************************************************)
(* Gravity simulator (simulator_lib): the Coordinate / Vector value types, *)
(* the entity model (Planet, Asteroid), the physics step apply_physics and *)
(* the request loop start_server / handle_connection that threads the      *)
(* World from one request to the next.                                     *)
(*                                                                         *)
(* Integers are i32 in the source.  All values drawn here stay far inside  *)
(* the i32 range, so no operation of the model overflows; the statements   *)
(* below are statements about non-overflowing inputs.                      *)
(***************************************************************************)
EXTENDS Integers, Sequences, FiniteSets, TLC

VARIABLES
    objects,                 \* start_server: the World kept across requests
    gravitational_constant,  \* start_server: G, fixed at startup
    initial_objects,         \* the World main handed to start_server (history)
    pc,                      \* "listening" | "handling" | "panicked" | "call" | "returned"
    incoming,                \* connections queued in the listener, arrival order
    connected,               \* number of connections made so far
    stream,                  \* the connection being handled, 0 when none
    responses,               \* responses written so far, in writing order
    args,                    \* arguments of a direct call of a library function
    result                   \* what that call returned

vars == <<objects, gravitational_constant, initial_objects, pc, incoming,
          connected, stream, responses, args, result>>

server_vars == <<objects, gravitational_constant, initial_objects, incoming,
                 connected, stream, responses>>

----------------------------------------------------------------------------
(* Bounds of the model *)

MaxObjects == 3
MaxRequests == 2
MaxPullWeight == 60
MaxSym == 3
MaxRect == 2
MaxSources == 2
MaxAsteroids == 2
MaxCursedWeight == 12
MaxCalls == 2

\* positions, weights and velocities the small worlds are built from
PlanetCoords == {[x |-> 0, y |-> 0], [x |-> 2, y |-> 1]}
Weights == {1, 3}
AsteroidCoords == {[x |-> 0, y |-> 0], [x |-> 2, y |-> 0]}
Velocities == {[x |-> 0, y |-> 0], [x |-> 1, y |-> -1]}
Gs == {1, 2}
PhysAsteroidCoords ==
    {[x |-> 0, y |-> 0], [x |-> 2, y |-> 2], [x |-> -1, y |-> -2]}

----------------------------------------------------------------------------
(* Values *)

Coordinate_new(x, y) == [x |-> x, y |-> y]

Vector_new(x, y) == [x |-> x, y |-> y]

Planet(coordinate, weight) ==
    [kind |-> "Planet", coordinate |-> coordinate, weight |-> weight]

Asteroid(coordinate, velocity) ==
    [kind |-> "Asteroid", coordinate |-> coordinate, velocity |-> velocity]

Circle(cx, cy, r) ==
    [cx |-> cx, cy |-> cy, r |-> r, stroke |-> "green", fill |-> "black",
     stroke_width |-> 3]

\* the radius every Asteroid is drawn with
AsteroidRadius == 2

\* the world and the constant main starts the server with
MainObjects ==
    << Planet(Coordinate_new(500, 500), 50),
       Asteroid(Coordinate_new(250, 250), Vector_new(30, -10)),
       Asteroid(Coordinate_new(750, 750), Vector_new(-30, 10)) >>

MainGravitationalConstant == 70

----------------------------------------------------------------------------
(* Coordinate *)

\* the difference taken the wrong way round
Coordinate_sub_swapped(self, rhs) == Vector_new(rhs.x - self.x, rhs.y - self.y)

\* Sub for Coordinate: the displacement from rhs to self, a Vector
Coordinate_sub(self, rhs) == Vector_new(self.x - rhs.x, self.y - rhs.y)

\* Add<Vector> for Coordinate
Coordinate_add(self, rhs) == Coordinate_new(self.x + rhs.x, self.y + rhs.y)

\* the y test taking a for the corner with the smaller y
y_in_range_ordered(self, a, b) == a.y <= self.y /\ self.y <= b.y

y_in_range(self, a, b) ==
    IF a.y <= b.y
    THEN a.y <= self.y /\ self.y <= b.y
    ELSE b.y <= self.y /\ self.y <= a.y

\* the x test alone, without the call of y_in_range
x_in_range_only(self, a, b) ==
    IF a.x <= b.x
    THEN a.x <= self.x /\ self.x <= b.x
    ELSE b.x <= self.x /\ self.x <= a.x

x_in_range(self, a, b) ==
    IF a.x <= b.x
    THEN a.x <= self.x /\ self.x <= b.x /\ y_in_range(self, a, b)
    ELSE b.x <= self.x /\ self.x <= a.x /\ y_in_range(self, a, b)

in_rectangle(self, a, b) == x_in_range(self, a, b)

----------------------------------------------------------------------------
(* Integer arithmetic of the source *)

\* a division that rounds toward minus infinity
i32_div_floor(a, b) == a \div b

\* i32 `/`: truncates toward zero; the caller has ruled out b = 0
i32_div(a, b) ==
    IF (a >= 0) = (b > 0)
    THEN (IF a >= 0 THEN a ELSE -a) \div (IF b > 0 THEN b ELSE -b)
    ELSE -((IF a >= 0 THEN a ELSE -a) \div (IF b > 0 THEN b ELSE -b))

\* (n as f64).sqrt() as i32, for n >= 0: the integer part of the square root
sqrt_as_i32(n) == CHOOSE r \in 0..n : r * r <= n /\ n < (r + 1) * (r + 1)

\* a distance clamped to a minimum of 1
get_distance_clamped(x1, y1, x2, y2) ==
    LET d == sqrt_as_i32((x1 - x2) * (x1 - x2) + (y1 - y2) * (y1 - y2))
    IN  IF d = 0 THEN 1 ELSE d

\* a distance rounded to the nearest integer instead of truncated
get_distance_rounded(x1, y1, x2, y2) ==
    LET n == (x1 - x2) * (x1 - x2) + (y1 - y2) * (y1 - y2)
    IN  CHOOSE r \in 0..(n + 1) :
            (2 * r - 1) * (2 * r - 1) <= 4 * n /\ 4 * n < (2 * r + 1) * (2 * r + 1)

\* a distance that leaves the y difference out
get_distance_x_only(x1, y1, x2, y2) ==
    sqrt_as_i32((x1 - x2) * (x1 - x2) + (y1 - y2) * (y1 - y1))

get_distance(x1, y1, x2, y2) ==
    sqrt_as_i32((x1 - x2) * (x1 - x2) + (y1 - y2) * (y1 - y2))

----------------------------------------------------------------------------
(* Entity model *)

Planet_get_position(p) == p.coordinate

Planet_get_weight(p) == p.weight

\* a planet drawn with the fixed radius of the other bodies
Planet_as_circle_fixed_radius(p) ==
    Circle(p.coordinate.x, p.coordinate.y, AsteroidRadius)

Planet_as_circle(p) == Circle(p.coordinate.x, p.coordinate.y, p.weight)

Asteroid_as_circle(a) == Circle(a.coordinate.x, a.coordinate.y, AsteroidRadius)

get_circle(o) ==
    IF o.kind = "Planet" THEN Planet_as_circle(o) ELSE Asteroid_as_circle(o)

\* GravityType: the variants in declaration order
GravityTypes == {"High", "Low"}

\* `g as i32`: the cast of a field-less enum gives the variant's
\* discriminant, 0 for the first variant and 1 for the second
GravityType_as_i32(g) == IF g = "High" THEN 0 ELSE 1

\* impl From<GravityType> for i32
i32_from_GravityType(g) == IF g = "High" THEN 2 ELSE 1

CursedPlanet(previous_state, weight, coordinate) ==
    [previous_state |-> previous_state, weight |-> weight,
     coordinate |-> coordinate]

\* GravitySource::get_weight for CursedPlanet: the returned value and the
\* planet after the call (the toggle of previous_state is commented out)
CursedPlanet_get_weight(self) ==
    [ret_val |-> GravityType_as_i32(self.previous_state) * self.weight,
     self |-> self]

----------------------------------------------------------------------------
(* Physics engine *)

\* the force with the displacement taken from the asteroid to the source
force_of_reversed(coord, planet_coord, planet_weight, G, distance) ==
    Vector_new(
        i32_div((planet_coord.x - coord.x) * planet_weight * G, distance),
        i32_div((planet_coord.y - coord.y) * planet_weight * G, distance))

\* the force one source exerts on an asteroid at coord (lines 203-206);
\* distance is the squared truncated distance and is not 0 here
force_of(coord, planet_coord, planet_weight, G, distance) ==
    Vector_new(
        i32_div((coord.x - planet_coord.x) * planet_weight * G, distance),
        i32_div((coord.y - planet_coord.y) * planet_weight * G, distance))

\* an inner loop that also moves the asteroid by its velocity after every
\* source, so that later sources see another coordinate
RECURSIVE apply_sources_moving(_, _, _, _)
apply_sources_moving(asteroid, gravity_source_tuples, G, j) ==
    IF j > Len(gravity_source_tuples)
    THEN [panicked |-> FALSE, asteroid |-> asteroid]
    ELSE LET planet_coord == gravity_source_tuples[j][1]
             planet_weight == gravity_source_tuples[j][2]
             d == get_distance(planet_coord.x, planet_coord.y,
                               asteroid.coordinate.x, asteroid.coordinate.y)
             distance == d * d
         IN  IF distance = 0
             THEN [panicked |-> TRUE, asteroid |-> asteroid]
             ELSE LET force == force_of(asteroid.coordinate, planet_coord,
                                        planet_weight, G, distance)
                      velocity == Vector_new(asteroid.velocity.x - force.x,
                                             asteroid.velocity.y - force.y)
                  IN  apply_sources_moving(
                          [asteroid EXCEPT
                              !.velocity = velocity,
                              !.coordinate = Coordinate_new(@.x + velocity.x,
                                                            @.y + velocity.y)],
                          gravity_source_tuples, G, j + 1)

\* the inner for_each over gravity_source_tuples for one asteroid, from the
\* j-th tuple on.  A zero distance makes the division panic: the asteroid is
\* then left as the earlier tuples changed it.
RECURSIVE apply_sources(_, _, _, _)
apply_sources(asteroid, gravity_source_tuples, G, j) ==
    IF j > Len(gravity_source_tuples)
    THEN [panicked |-> FALSE, asteroid |-> asteroid]
    ELSE LET planet_coord == gravity_source_tuples[j][1]
             planet_weight == gravity_source_tuples[j][2]
             d == get_distance(planet_coord.x, planet_coord.y,
                               asteroid.coordinate.x, asteroid.coordinate.y)
             distance == d * d
         IN  IF distance = 0
             THEN [panicked |-> TRUE, asteroid |-> asteroid]
             ELSE LET force == force_of(asteroid.coordinate, planet_coord,
                                        planet_weight, G, distance)
                  IN  apply_sources(
                          [asteroid EXCEPT
                              !.velocity = Vector_new(@.x - force.x, @.y - force.y)],
                          gravity_source_tuples, G, j + 1)

\* an outer loop with one velocity shared by all asteroids: every asteroid
\* after the first starts from the velocity the one before it ended with
RECURSIVE update_velocities_shared(_, _, _, _)
update_velocities_shared(asteroids, gravity_source_tuples, G, i) ==
    IF i > Len(asteroids)
    THEN [panicked |-> FALSE, asteroids |-> asteroids]
    ELSE LET start == IF i > 1
                      THEN [asteroids[i] EXCEPT !.velocity = asteroids[i - 1].velocity]
                      ELSE asteroids[i]
             r == apply_sources(start, gravity_source_tuples, G, 1)
             updated == [asteroids EXCEPT ![i] = r.asteroid]
         IN  IF r.panicked
             THEN [panicked |-> TRUE, asteroids |-> updated]
             ELSE update_velocities_shared(updated, gravity_source_tuples, G, i + 1)

\* the outer for_each over the asteroids, from the i-th asteroid on
RECURSIVE update_velocities(_, _, _, _)
update_velocities(asteroids, gravity_source_tuples, G, i) ==
    IF i > Len(asteroids)
    THEN [panicked |-> FALSE, asteroids |-> asteroids]
    ELSE LET r == apply_sources(asteroids[i], gravity_source_tuples, G, 1)
             updated == [asteroids EXCEPT ![i] = r.asteroid]
         IN  IF r.panicked
             THEN [panicked |-> TRUE, asteroids |-> updated]
             ELSE update_velocities(updated, gravity_source_tuples, G, i + 1)

\* the second for_each: every asteroid moves by its updated velocity
advance(asteroids) ==
    [i \in 1..Len(asteroids) |->
        [asteroids[i] EXCEPT
            !.coordinate = Coordinate_new(@.x + asteroids[i].velocity.x,
                                          @.y + asteroids[i].velocity.y)]]

\* a tick that hands the sources back in reverse order
apply_physics_reversing(gravity_sources, asteroids, G) ==
    LET gravity_source_tuples ==
            [k \in 1..Len(gravity_sources) |->
                <<Planet_get_position(gravity_sources[k]),
                  Planet_get_weight(gravity_sources[k])>>]
        r == update_velocities(asteroids, gravity_source_tuples, G, 1)
        reversed == [k \in 1..Len(gravity_sources) |->
                        gravity_sources[Len(gravity_sources) + 1 - k]]
    IN  IF r.panicked
        THEN [panicked |-> TRUE, gravity_sources |-> reversed,
              asteroids |-> r.asteroids]
        ELSE [panicked |-> FALSE, gravity_sources |-> reversed,
              asteroids |-> advance(r.asteroids)]

\* apply_physics: the sources' (position, weight) are read once, then the
\* velocities are updated, then the positions.  When a division panics the
\* call does not return; `asteroids` is then the local vector as the panic
\* left it.
apply_physics(gravity_sources, asteroids, G) ==
    LET gravity_source_tuples ==
            [k \in 1..Len(gravity_sources) |->
                <<Planet_get_position(gravity_sources[k]),
                  Planet_get_weight(gravity_sources[k])>>]
        r == update_velocities(asteroids, gravity_source_tuples, G, 1)
    IN  IF r.panicked
        THEN [panicked |-> TRUE, gravity_sources |-> gravity_sources,
              asteroids |-> r.asteroids]
        ELSE [panicked |-> FALSE, gravity_sources |-> gravity_sources,
              asteroids |-> advance(r.asteroids)]

----------------------------------------------------------------------------
(* World sequencer *)

IsPlanet(o) == o.kind = "Planet"

IsAsteroid(o) == o.kind = "Asteroid"

\* the asteroids of `asteroids` put back at the places of the asteroids of
\* `world`, in order (the merged world of the design; the source has no such
\* step)
RECURSIVE recombine(_, _)
recombine(world, asteroids) ==
    IF world = <<>> THEN <<>>
    ELSE IF IsAsteroid(Head(world))
         THEN <<Head(asteroids)>> \o recombine(Tail(world), Tail(asteroids))
         ELSE <<Head(world)>> \o recombine(Tail(world), asteroids)

\* a handler that works on the World in place instead of on clones
handle_connection_in_place(world, G) ==
    LET physics == apply_physics(SelectSeq(world, IsPlanet),
                                 SelectSeq(world, IsAsteroid), G)
        merged == recombine(world, physics.asteroids)
    IN  [panicked |-> physics.panicked,
         contents |-> [i \in 1..Len(world) |-> get_circle(world[i])],
         objects |-> merged]

\* a handler that returns the emitters followed by the mobiles
handle_connection_regrouped(world, G) ==
    LET physics == apply_physics(SelectSeq(world, IsPlanet),
                                 SelectSeq(world, IsAsteroid), G)
    IN  [panicked |-> physics.panicked,
         contents |-> [i \in 1..Len(world) |-> get_circle(world[i])],
         objects |-> SelectSeq(world, IsPlanet) \o SelectSeq(world, IsAsteroid)]

\* handle_connection: the planets and asteroids of the World are cloned into
\* input_planets / input_asteroids, apply_physics runs on the clones, the
\* response body is the circles of `objects`, and `objects` is returned.
\* `circles` (line 236-237) is built and never used.
handle_connection(world, G) ==
    LET input_planets == SelectSeq(world, IsPlanet)
        input_asteroids == SelectSeq(world, IsAsteroid)
        physics == apply_physics(input_planets, input_asteroids, G)
        contents == [i \in 1..Len(world) |-> get_circle(world[i])]
    IN  [panicked |-> physics.panicked,
         contents |-> contents,
         objects |-> world]

----------------------------------------------------------------------------
(* The server: start_server's loop over listener.incoming() *)

Bodies ==
    {Planet(c, w) : c \in PlanetCoords, w \in Weights}
    \cup {Asteroid(c, v) : c \in AsteroidCoords, v \in Velocities}

Worlds == UNION {[1..n -> Bodies] : n \in 1..MaxObjects}

\* main, or a start with a small world
Init ==
    /\ \/ /\ objects = MainObjects
          /\ gravitational_constant = MainGravitationalConstant
       \/ /\ objects \in Worlds
          /\ gravitational_constant \in Gs
    /\ initial_objects = objects
    /\ pc = "listening"
    /\ incoming = <<>>
    /\ connected = 0
    /\ stream = 0
    /\ responses = <<>>
    /\ args = <<>>
    /\ result = <<>>

\* a client connects: the connection waits in the listener's queue
Connect ==
    /\ pc \in {"listening", "handling"}
    /\ connected < MaxRequests
    /\ connected' = connected + 1
    /\ incoming' = Append(incoming, connected + 1)
    /\ UNCHANGED <<objects, gravitational_constant, initial_objects, pc,
                   stream, responses, args, result>>

\* a loop that takes the next connection whether or not the last is done
Accept_while_handling ==
    /\ pc \in {"listening", "handling"}
    /\ incoming # <<>>
    /\ stream' = Head(incoming)
    /\ incoming' = Tail(incoming)
    /\ pc' = "handling"
    /\ UNCHANGED <<objects, gravitational_constant, initial_objects,
                   connected, responses, args, result>>

\* listener.incoming() yields the next connection
Accept ==
    /\ pc = "listening"
    /\ incoming # <<>>
    /\ stream' = Head(incoming)
    /\ incoming' = Tail(incoming)
    /\ pc' = "handling"
    /\ UNCHANGED <<objects, gravitational_constant, initial_objects,
                   connected, responses, args, result>>

\* a server whose World also moves while connections wait: one more step for
\* a request that is served while another connection is queued
HandleConnection_background_tick ==
    /\ pc = "handling"
    /\ LET r == handle_connection(objects, gravitational_constant)
       IN  IF r.panicked
           THEN /\ pc' = "panicked"
                /\ objects' = r.objects
                /\ UNCHANGED <<stream, responses>>
           ELSE /\ pc' = "listening"
                /\ objects' =
                       IF incoming = <<>> THEN r.objects
                       ELSE handle_connection_in_place(
                                r.objects, gravitational_constant).objects
                /\ responses' = Append(responses,
                                       [request |-> stream, contents |-> r.contents])
                /\ stream' = 0
    /\ UNCHANGED <<gravitational_constant, initial_objects, incoming,
                   connected, args, result>>

\* objects = handle_connection(stream, objects, gravitational_constant).
\* A panic in the handler unwinds the only thread: nothing is written and
\* the loop never runs again.
HandleConnection ==
    /\ pc = "handling"
    /\ LET r == handle_connection(objects, gravitational_constant)
       IN  IF r.panicked
           THEN /\ pc' = "panicked"
                /\ objects' = r.objects
                /\ UNCHANGED <<stream, responses>>
           ELSE /\ pc' = "listening"
                /\ objects' = r.objects
                /\ responses' = Append(responses,
                                       [request |-> stream, contents |-> r.contents])
                /\ stream' = 0
    /\ UNCHANGED <<gravitational_constant, initial_objects, incoming,
                   connected, args, result>>

Next == Connect \/ Accept \/ HandleConnection

Spec == Init /\ [][Next]_vars

----------------------------------------------------------------------------
(* What the design says a request does to the World *)

\* one physics step on a World: the asteroids as apply_physics returns them,
\* merged back in World order (a step that panics returns nothing)
tick(world, G) ==
    LET physics == apply_physics(SelectSeq(world, IsPlanet),
                                 SelectSeq(world, IsAsteroid), G)
    IN  IF physics.panicked THEN world ELSE recombine(world, physics.asteroids)

RECURSIVE ticks(_, _, _)
ticks(world, G, n) == IF n = 0 THEN world ELSE ticks(tick(world, G), G, n - 1)

\* some asteroid of the World lies exactly on some planet
Coincident(world) ==
    \E i, j \in 1..Len(world) :
        /\ IsAsteroid(world[i])
        /\ IsPlanet(world[j])
        /\ world[i].coordinate = world[j].coordinate

\* C1: after N served requests the retained World is the initial World
\* advanced by N physics steps.
C1_WorldAdvancesOncePerRequest ==
    pc \in {"listening", "handling"} =>
        objects = ticks(initial_objects, gravitational_constant, Len(responses))

\* C2: the frame written for the k-th request shows every Asteroid at its
\* coordinate after k physics steps.
C2_FrameShowsStateAfterTick ==
    \A k \in 1..Len(responses) :
        LET world == ticks(initial_objects, gravitational_constant, k)
            frame == responses[k].contents
        IN  \A i \in 1..Len(world) :
                IsAsteroid(world[i]) =>
                    /\ frame[i].cx = world[i].coordinate.x
                    /\ frame[i].cy = world[i].coordinate.y

\* C3: every frame written has one circle per World object, in World order;
\* a Planet's circle is centred on the planet with its weight as radius, an
\* Asteroid's circle has radius 2, and every circle is green on black with
\* stroke-width 3; the world of main gives the radii 50, 2, 2.
C3_FrameHasOneCirclePerObject ==
    \A k \in 1..Len(responses) :
        LET frame == responses[k].contents
        IN  /\ Len(frame) = Len(objects)
            /\ \A i \in 1..Len(frame) :
                /\ DOMAIN frame[i] = {"cx", "cy", "r", "stroke", "fill", "stroke_width"}
                /\ frame[i].stroke = "green"
                /\ frame[i].fill = "black"
                /\ frame[i].stroke_width = 3
                /\ IsPlanet(objects[i]) =>
                        /\ frame[i].cx = objects[i].coordinate.x
                        /\ frame[i].cy = objects[i].coordinate.y
                        /\ frame[i].r = objects[i].weight
                /\ IsAsteroid(objects[i]) => frame[i].r = 2
            /\ initial_objects = MainObjects =>
                    [i \in 1..Len(frame) |-> frame[i].r] = <<50, 2, 2>>

C3_Witness ==
    /\ initial_objects = MainObjects
    /\ Len(responses) >= 1
    /\ Len(responses[1].contents) = 3

\* C4: the retained World always has the length and the kinds of the initial
\* World, and every Planet in it is as it was initially.
C4_WorldShapeAndPlanetsFixed ==
    /\ Len(objects) = Len(initial_objects)
    /\ \A i \in 1..Len(objects) :
        /\ objects[i].kind = initial_objects[i].kind
        /\ IsPlanet(objects[i]) => objects[i] = initial_objects[i]

C4_Witness ==
    /\ Len(responses) = MaxRequests
    /\ Len(objects) >= 2
    /\ IsAsteroid(objects[1])
    /\ \E i \in 1..Len(objects) : IsPlanet(objects[i])

\* C5: a request whose force computation divides by zero leaves the World
\* exactly as it was before the request.
C5_FaultedTickLeavesWorld ==
    [][pc' = "panicked" => objects' = objects]_vars

\* the handler panicked after the velocity of an earlier asteroid, or of the
\* same asteroid against an earlier source, had been updated
C5_Witness ==
    /\ pc = "panicked"
    /\ apply_physics(SelectSeq(objects, IsPlanet),
                     SelectSeq(objects, IsAsteroid),
                     gravitational_constant).asteroids
           # SelectSeq(objects, IsAsteroid)

\* C6: a request served while an Asteroid lies exactly on a gravity source
\* ends in the division-by-zero panic and writes no result.
C6_CoincidenceFaults ==
    [][(pc = "handling" /\ pc' # "handling" /\ Coincident(objects))
          => (pc' = "panicked" /\ responses' = responses)]_vars

C6_Witness ==
    /\ pc = "panicked"
    /\ Coincident(objects)
    /\ responses = <<>>

\* C7: requests are handled one at a time in arrival order: the request in
\* flight is the one after the last answered, the waiting ones come after
\* it, and the k-th response written answers the k-th connection.
C7_OneRequestAtATime ==
    /\ \A k \in 1..Len(responses) : responses[k].request = k
    /\ stream # 0 => stream = Len(responses) + 1
    /\ (pc = "handling") => stream # 0
    /\ (pc = "listening") => stream = 0
    /\ \A q \in 1..Len(incoming) :
        incoming[q] = Len(responses) + (IF stream # 0 THEN 1 ELSE 0) + q

\* a second connection waits while the first is being handled
C7_Witness ==
    /\ pc = "handling"
    /\ stream = 1
    /\ incoming = <<2>>

----------------------------------------------------------------------------
(* Direct calls of the library functions, on arguments drawn from bounded  *)
(* sets                                                                    *)

NoServer ==
    /\ objects = <<>>
    /\ gravitational_constant = 0
    /\ initial_objects = <<>>
    /\ incoming = <<>>
    /\ connected = 0
    /\ stream = 0
    /\ responses = <<>>

\* one emitter of weight W at the origin, one asteroid at rest at (10, 0), G = 1
PullCalls ==
    {[fn |-> "apply_physics",
      gravity_sources |-> <<Planet(Coordinate_new(0, 0), W)>>,
      asteroids |-> <<Asteroid(Coordinate_new(10, 0), Vector_new(0, 0))>>,
      G |-> 1] : W \in 1..MaxPullWeight}

SymCoords == (-MaxSym)..MaxSym

SymGs == (-2)..2

\* an asteroid at (m, 0) and two emitters of equal weight at (p, q), (p, -q)
SymCalls ==
    {[fn |-> "apply_physics",
      gravity_sources |-> <<Planet(Coordinate_new(t[2], t[3]), t[4]),
                            Planet(Coordinate_new(t[2], -t[3]), t[4])>>,
      asteroids |-> <<Asteroid(Coordinate_new(t[1], 0), t[6])>>,
      G |-> t[5]] :
        t \in SymCoords \X SymCoords \X (SymCoords \ {0}) \X Weights \X SymGs
              \X Velocities}

\* up to MaxSources emitters and up to MaxAsteroids asteroids, some of them
\* lying exactly on an emitter
SourceSeqs ==
    UNION {[1..n -> {Planet(c, w) : c \in PlanetCoords, w \in Weights}] :
              n \in 0..MaxSources}

AsteroidSeqs ==
    UNION {[1..n -> {Asteroid(c, v) : c \in PhysAsteroidCoords, v \in Velocities}] :
              n \in 1..MaxAsteroids}

GeneralCalls ==
    {[fn |-> "apply_physics", gravity_sources |-> s, asteroids |-> a, G |-> g] :
        s \in SourceSeqs, a \in AsteroidSeqs, g \in Gs}

InitPhysics ==
    /\ NoServer
    /\ pc = "call"
    /\ args \in PullCalls \cup SymCalls \cup GeneralCalls
    /\ result = <<>>

CallApplyPhysics ==
    /\ pc = "call"
    /\ args.fn = "apply_physics"
    /\ result' = apply_physics(args.gravity_sources, args.asteroids, args.G)
    /\ pc' = "returned"
    /\ UNCHANGED <<server_vars, args>>

NextPhysics == CallApplyPhysics

SpecPhysics == InitPhysics /\ [][NextPhysics]_vars

RectCoords == {Coordinate_new(x, y) : x, y \in (-MaxRect)..MaxRect}

InitRectangle ==
    /\ NoServer
    /\ pc = "call"
    /\ args \in {[fn |-> "in_rectangle", self |-> t[1], a |-> t[2], b |-> t[3]] :
                    t \in RectCoords \X RectCoords \X RectCoords}
    /\ result = <<>>

CallInRectangle ==
    /\ pc = "call"
    /\ args.fn = "in_rectangle"
    /\ result' = in_rectangle(args.self, args.a, args.b)
    /\ pc' = "returned"
    /\ UNCHANGED <<server_vars, args>>

NextRectangle == CallInRectangle

SpecRectangle == InitRectangle /\ [][NextRectangle]_vars

----------------------------------------------------------------------------

Min(m, n) == IF m <= n THEN m ELSE n

Max(m, n) == IF m <= n THEN n ELSE m

PullReturned == pc = "returned" /\ args \in PullCalls

\* C8 as stated: for every weight W >= 1 the asteroid at (10, 0) ends the
\* tick with velocity.x < 0, velocity.y = 0 and coordinate.x < 10.
C8_PulledForEveryWeight ==
    PullReturned =>
        /\ ~result.panicked
        /\ result.asteroids[1].velocity.x < 0
        /\ result.asteroids[1].velocity.y = 0
        /\ result.asteroids[1].coordinate.x < 10

\* C8 amended: the same for every weight W >= 10; for W from 1 to 9 the
\* force 10 * W / 100 truncates to 0 and the asteroid stays at rest at (10, 0).
C8_PulledFromWeightTen ==
    PullReturned =>
        LET W == args.gravity_sources[1].weight
            after == result.asteroids[1]
        IN  /\ ~result.panicked
            /\ W >= 10 =>
                /\ after.velocity.x < 0
                /\ after.velocity.y = 0
                /\ after.coordinate.x < 10
            /\ W < 10 => after = args.asteroids[1]

C8_Witness ==
    /\ PullReturned
    /\ args.gravity_sources[1].weight = 10
    /\ result.asteroids[1].velocity = Vector_new(-1, 0)
    /\ result.asteroids[1].coordinate = Coordinate_new(9, 0)

SymReturned == pc = "returned" /\ args \in SymCalls

\* C9: with two emitters of equal weight mirrored about the x-axis through
\* the asteroid, the tick does not fault and leaves the asteroid's
\* velocity.y as it was.
C9_SymmetryCancelsForceY ==
    SymReturned =>
        /\ ~result.panicked
        /\ result.asteroids[1].velocity.y = args.asteroids[1].velocity.y
        /\ result.asteroids[1].coordinate.y =
               args.asteroids[1].coordinate.y + args.asteroids[1].velocity.y

\* each emitter's force.y is not 0 and its division is inexact
C9_Witness ==
    /\ SymReturned
    /\ LET src == args.gravity_sources[1]
           a == args.asteroids[1]
           d == get_distance(src.coordinate.x, src.coordinate.y,
                             a.coordinate.x, a.coordinate.y)
           f == force_of(a.coordinate, src.coordinate, src.weight, args.G, d * d)
       IN  /\ f.y # 0
           /\ f.y * d * d # (a.coordinate.y - src.coordinate.y) * src.weight * args.G
    /\ result.asteroids[1].velocity.y = args.asteroids[1].velocity.y

\* C10: in_rectangle(a, b) is true of p exactly when p lies in the box with
\* corners a and b, edges included, whichever opposite corners are given.
C10_InRectangleIsBoxContainment ==
    (pc = "returned" /\ args.fn = "in_rectangle") =>
        result = ( /\ Min(args.a.x, args.b.x) <= args.self.x
                   /\ args.self.x <= Max(args.a.x, args.b.x)
                   /\ Min(args.a.y, args.b.y) <= args.self.y
                   /\ args.self.y <= Max(args.a.y, args.b.y) )

\* a point on an edge of a box given by its top-right and bottom-left corners
C10_Witness ==
    /\ pc = "returned"
    /\ args.fn = "in_rectangle"
    /\ args.a.x > args.b.x
    /\ args.a.y < args.b.y
    /\ args.self.x = args.a.x
    /\ args.self.y # args.a.y
    /\ args.self.y # args.b.y
    /\ result = TRUE

----------------------------------------------------------------------------
(* Coordinate difference followed by Coordinate + Vector *)

InitRoundTrip ==
    /\ NoServer
    /\ pc = "call"
    /\ args \in {[fn |-> "sub_add", a |-> t[1], b |-> t[2]] :
                    t \in RectCoords \X RectCoords}
    /\ result = <<>>

\* b + (a - b)
CallSubThenAdd ==
    /\ pc = "call"
    /\ args.fn = "sub_add"
    /\ result' = Coordinate_add(args.b, Coordinate_sub(args.a, args.b))
    /\ pc' = "returned"
    /\ UNCHANGED <<server_vars, args>>

NextRoundTrip == CallSubThenAdd

SpecRoundTrip == InitRoundTrip /\ [][NextRoundTrip]_vars

\* C11: in_rectangle gives the same answer with the two corners swapped, and
\* a corner is always inside its own box.
C11_InRectangleSymmetric ==
    (pc = "returned" /\ args.fn = "in_rectangle") =>
        /\ result = in_rectangle(args.self, args.b, args.a)
        /\ args.self = args.a => result = TRUE

\* the point is the corner a of a box given by its bottom-right and top-left
\* corners
C11_Witness ==
    /\ pc = "returned"
    /\ args.fn = "in_rectangle"
    /\ args.self = args.a
    /\ args.a.x > args.b.x
    /\ args.a.y > args.b.y
    /\ result = TRUE

\* C12: adding the Vector a - b to b gives a Coordinate equal to a.
C12_DifferenceRoundTrips ==
    (pc = "returned" /\ args.fn = "sub_add") => result = args.a

C12_Witness ==
    /\ pc = "returned"
    /\ args.fn = "sub_add"
    /\ args.a.x < args.b.x
    /\ args.a.y > args.b.y
    /\ result = args.a

----------------------------------------------------------------------------
(* Reproducibility of a run of the server *)

\* the World start_server holds after n requests served from `world`
RECURSIVE run_world(_, _, _)
run_world(world, G, n) ==
    IF n = 0 THEN world
    ELSE run_world(handle_connection(world, G).objects, G, n - 1)

\* the frame written for the k-th request of a run started from `world`
run_frame(world, G, k) == handle_connection(run_world(world, G, k - 1), G).contents

----------------------------------------------------------------------------
(* One tick of apply_physics in closed form *)

PhysicsReturned == pc = "returned" /\ args.fn = "apply_physics"

\* the largest d with d * d <= n
FloorSqrt(n) == CHOOSE d \in 0..n : d * d <= n /\ \A e \in 0..n : e * e <= n => e <= d

\* the quotient n / m rounded toward zero, for m > 0
TruncQuot(n, m) == IF n >= 0 THEN n \div m ELSE 0 - ((0 - n) \div m)

SquaredTruncatedDistance(p, s) ==
    LET d == FloorSqrt((s.x - p.x) * (s.x - p.x) + (s.y - p.y) * (s.y - p.y))
    IN  d * d

\* the sum over the first k sources of the force on a body at p
RECURSIVE SummedForce(_, _, _, _)
SummedForce(p, sources, G, k) ==
    IF k = 0 THEN Vector_new(0, 0)
    ELSE LET s == sources[k].coordinate
             w == sources[k].weight
             d2 == SquaredTruncatedDistance(p, s)
             rest == SummedForce(p, sources, G, k - 1)
         IN  Vector_new(rest.x + TruncQuot((p.x - s.x) * w * G, d2),
                        rest.y + TruncQuot((p.y - s.y) * w * G, d2))

\* some asteroid of the call lies exactly on some source of the call
CallCoincident ==
    \E i \in 1..Len(args.asteroids), k \in 1..Len(args.gravity_sources) :
        args.asteroids[i].coordinate = args.gravity_sources[k].coordinate

\* C14: a completed tick gives every asteroid the velocity v minus the sum
\* of the forces ((p - s_i) * w_i * G) / (d_i * d_i), d_i the truncated
\* distance and the division truncating toward zero, all taken at the
\* start-of-tick coordinate p, and the coordinate p plus that new velocity.
C14_TickInClosedForm ==
    (PhysicsReturned /\ ~result.panicked) =>
        /\ Len(result.asteroids) = Len(args.asteroids)
        /\ \A i \in 1..Len(args.asteroids) :
            LET p == args.asteroids[i].coordinate
                v == args.asteroids[i].velocity
                f == SummedForce(p, args.gravity_sources, args.G,
                                 Len(args.gravity_sources))
            IN  /\ result.asteroids[i].velocity = Vector_new(v.x - f.x, v.y - f.y)
                /\ result.asteroids[i].coordinate =
                       Coordinate_new(p.x + v.x - f.x, p.y + v.y - f.y)

\* a tick with two sources, one at a distance whose square root is not an
\* integer, that changes the velocity of a moving asteroid
C14_Witness ==
    /\ PhysicsReturned
    /\ ~result.panicked
    /\ Len(args.gravity_sources) = 2
    /\ \E i \in 1..Len(args.asteroids) :
        LET p == args.asteroids[i].coordinate
            s == args.gravity_sources[2].coordinate
        IN  /\ SquaredTruncatedDistance(p, s)
                   # (s.x - p.x) * (s.x - p.x) + (s.y - p.y) * (s.y - p.y)
            /\ args.asteroids[i].velocity # Vector_new(0, 0)
            /\ result.asteroids[i].velocity # args.asteroids[i].velocity

\* C15: a completed tick returns the sources it was given, same length,
\* order, positions and weights, and as many asteroids as it was given, in
\* the order given: the i-th returned asteroid is the i-th input moved by its
\* new velocity.
C15_SourcesAndOrderKept ==
    (PhysicsReturned /\ ~result.panicked) =>
        /\ result.gravity_sources = args.gravity_sources
        /\ Len(result.asteroids) = Len(args.asteroids)
        /\ \A i \in 1..Len(args.asteroids) :
            /\ result.asteroids[i].kind = "Asteroid"
            /\ result.asteroids[i].coordinate.x - result.asteroids[i].velocity.x
                   = args.asteroids[i].coordinate.x
            /\ result.asteroids[i].coordinate.y - result.asteroids[i].velocity.y
                   = args.asteroids[i].coordinate.y

\* two different sources and two asteroids at different places
C15_Witness ==
    /\ PhysicsReturned
    /\ ~result.panicked
    /\ Len(args.gravity_sources) = 2
    /\ args.gravity_sources[1] # args.gravity_sources[2]
    /\ Len(args.asteroids) = 2
    /\ args.asteroids[1].coordinate # args.asteroids[2].coordinate
    /\ result.asteroids # args.asteroids

C18_NoFaultWithoutCoincidence ==
    (PhysicsReturned /\ ~CallCoincident) =>
        /\ ~result.panicked
        /\ \A i \in 1..Len(args.asteroids), k \in 1..Len(args.gravity_sources) :
            get_distance(args.gravity_sources[k].coordinate.x,
                         args.gravity_sources[k].coordinate.y,
                         args.asteroids[i].coordinate.x,
                         args.asteroids[i].coordinate.y) >= 1

\* an asteroid one step away from a source, on the same vertical line
C18_Witness ==
    /\ PhysicsReturned
    /\ ~CallCoincident
    /\ ~result.panicked
    /\ \E i \in 1..Len(args.asteroids), k \in 1..Len(args.gravity_sources) :
        /\ args.asteroids[i].coordinate.x = args.gravity_sources[k].coordinate.x
        /\ args.asteroids[i].coordinate.y = args.gravity_sources[k].coordinate.y + 1

\* the sources of the call taken in the order f
Permuted(sources, f) == [k \in 1..Len(sources) |-> sources[f[k]]]

\* C19: the tick gives the same asteroids for every order of the sources
\* (and faults for every order if it faults for one).
C19_SourceOrderIrrelevant ==
    PhysicsReturned =>
        \A f \in Permutations(1..Len(args.gravity_sources)) :
            LET other == apply_physics(Permuted(args.gravity_sources, f),
                                       args.asteroids, args.G)
            IN  /\ other.panicked = result.panicked
                /\ ~result.panicked => other.asteroids = result.asteroids

\* two sources that pull a moving asteroid with different, inexact forces
C19_Witness ==
    /\ PhysicsReturned
    /\ ~result.panicked
    /\ Len(args.gravity_sources) = 2
    /\ \E i \in 1..Len(args.asteroids) :
        LET p == args.asteroids[i].coordinate
            s1 == args.gravity_sources[1]
            s2 == args.gravity_sources[2]
            f1 == force_of(p, s1.coordinate, s1.weight, args.G,
                           SquaredTruncatedDistance(p, s1.coordinate))
            f2 == force_of(p, s2.coordinate, s2.weight, args.G,
                           SquaredTruncatedDistance(p, s2.coordinate))
        IN  /\ f1 # f2
            /\ f1 # Vector_new(0, 0)
            /\ f2 # Vector_new(0, 0)

----------------------------------------------------------------------------
(* Repeated calls of CursedPlanet::get_weight *)

InitCursed ==
    /\ NoServer
    /\ pc = "call"
    /\ args \in {[fn |-> "get_weight",
                  self |-> CursedPlanet(g, w, Coordinate_new(0, 0))] :
                    g \in GravityTypes, w \in (-MaxCursedWeight)..MaxCursedWeight}
    /\ result = <<>>

\* one more call on the same planet; result collects the returned values
CallGetWeight ==
    /\ pc = "call"
    /\ args.fn = "get_weight"
    /\ Len(result) < MaxCalls
    /\ LET r == CursedPlanet_get_weight(args.self)
       IN  /\ result' = Append(result, r.ret_val)
           /\ args' = [args EXCEPT !.self = r.self]
    /\ pc' = IF Len(result) + 1 = MaxCalls THEN "returned" ELSE "call"
    /\ UNCHANGED server_vars

NextCursed == CallGetWeight

SpecCursed == InitCursed /\ [][NextCursed]_vars

\* C16: every call of get_weight returns weight * multiplier(previous_state),
\* the multiplier being 2 for High and 1 for Low as in the conversion of
\* GravityType to i32, and leaves previous_state as it was, so that repeated
\* calls return the same value.
C16_GetWeightUsesMultiplier ==
    args.fn = "get_weight" =>
        \A k \in 1..Len(result) :
            /\ result[k] = args.self.weight * i32_from_GravityType(args.self.previous_state)
            /\ result[k] = result[1]

====
